---------------------------- MODULE Spec2Model ----------------------------
(***************************************************************************)
(* A model of ffxiv-dps-calc: backend/calc.py (Stat, ProbabalisticStat,    *)
(* CharacterStats.calc_damage, Buffs, Jobs, Comp) and backend/pps/sch.py   *)
(* (SchPps).                                                               *)
(*                                                                         *)
(* Numbers.  Python ints are modelled by integers.  Python floats are      *)
(* modelled by exact fixed-point integers:                                 *)
(*   - a crit/dh rate r is the integer r * RateDen;                        *)
(*   - the float returned by calc_damage is an exact signed multi-limb     *)
(*     integer (see Big) holding result * RateDen^2;                       *)
(*   - math.floor(val * ((1000 + factor) / 1000)) is modelled with the     *)
(*     IEEE-754 binary64 rounding of the quotient and of the product (see  *)
(*     multiply_and_truncate), because the rounding changes the integer    *)
(*     the code obtains;                                                   *)
(*   - in sch.py a time t (seconds) is the integer t * TimeDen, a DoT      *)
(*     scalar s is s * ScalarDen and a potency p is p * PotDen; the inputs *)
(*     are drawn from this dyadic grid, on which the code's float          *)
(*     subtraction, %, comparison, floor and ceil are exact.               *)
(***************************************************************************)
EXTENDS Integers, Sequences, FiniteSets, TLC

VARIABLES
    pc,      \* where the program is: the operation that produced the state
    stat,    \* a Stat / ProbabalisticStat object: [stat, value]
    mult,    \* <<>> or <<m>>: what stat.get_multiplier() last returned
    prob,    \* <<>> or <<p>>: what stat.get_p() last returned (rate units)
    comp,    \* a Comp object: [jobs, raidbuffs, n_roles]
    self,    \* a CharacterStats object
    frame,   \* <<>> or <<f>>: the arguments, locals and return value of the
             \* calc_damage call that is returning
    probe,   \* <<>> or <<f, between>>: the frame of the first calc_damage call
    pps,     \* <<>> or <<f>>: the frame of a SchPps.get_pps call at its return
    flex     \* <<>> or <<f>>: the frame of a
             \* SchPps.get_total_potency_flexible_time call at its return

vars == <<pc, stat, mult, prob, comp, self, frame, probe, pps, flex>>

----------------------------------------------------------------------------
(* Bounds of the model *)

\* stat values are drawn from base - MaxDelta .. base + MaxDelta
MaxDelta == 60
\* a party list holds at most MaxParty jobs
MaxParty == 2
\* at most MaxOmitted filler casts are declared omitted
MaxOmitted == 2
\* a flexible window lasts at most MaxSeconds seconds
MaxSeconds == 40

----------------------------------------------------------------------------
(* calc.py: Stats enum *)

StatKinds == {"MAINSTAT", "DET", "CRIT", "DH", "SPEED", "TEN", "PIE", "GCD", "PRECISION"}

Stats ==
    [k \in StatKinds |->
        CASE k = "MAINSTAT"  -> [base |-> 340,  m_factor |-> 165,  m_scalar |-> 0]
          [] k = "DET"       -> [base |-> 340,  m_factor |-> 130,  m_scalar |-> 0]
          [] k = "CRIT"      -> [base |-> 380,  m_factor |-> 200,  m_scalar |-> 400]
          [] k = "DH"        -> [base |-> 380,  m_factor |-> 1250, m_scalar |-> 0]
          [] k = "SPEED"     -> [base |-> 380,  m_factor |-> 130,  m_scalar |-> 0]
          [] k = "TEN"       -> [base |-> 380,  m_factor |-> 100,  m_scalar |-> 0]
          [] k = "PIE"       -> [base |-> 340,  m_factor |-> 1,    m_scalar |-> 0]
          [] k = "GCD"       -> [base |-> 2500, m_factor |-> 1,    m_scalar |-> 0]
          [] k = "PRECISION" -> [base |-> 1000, m_factor |-> 1,    m_scalar |-> 0]]

\* Stat.__init__
Stat(kind, value) == [stat |-> kind, value |-> value]

\* A multiplier is a fraction <<numerator, denominator>> in lowest terms:
\* the int n is <<n, 1>> and the float 1.25 is <<5, 4>>.
DH_MULTIPLIER == <<5, 4>>

\* the denominator get_multiplier divides by
magic_num(kind) == IF kind = "MAINSTAT" THEN 340 ELSE 3300

\* a division that rounds toward zero, as C's / does (not what Python's // does)
TruncDiv(a, b) == IF a >= 0 THEN a \div b ELSE -((-a) \div b)

get_multiplier_truncating(s) ==
    IF s.stat = "DH"
    THEN DH_MULTIPLIER
    ELSE LET delta == s.value - Stats[s.stat].base
         IN  <<TruncDiv(Stats[s.stat].m_factor * delta, magic_num(s.stat))
                 + Stats[s.stat].m_scalar, 1>>

\* Stat.get_multiplier; Python's // floors, as \div does
get_multiplier(s) ==
    IF s.stat = "DH"
    THEN DH_MULTIPLIER
    ELSE LET delta == s.value - Stats[s.stat].base
         IN  <<(Stats[s.stat].m_factor * delta) \div magic_num(s.stat)
                 + Stats[s.stat].m_scalar, 1>>

\* the integer a non-direct-hit multiplier is
IntMultiplier(s) == get_multiplier(s)[1]

\* Rates are integers in units of 1/RateDen.  RateDen is a multiple of
\* Stats.PRECISION.base and of every buff's cooldown denominator, so get_p and
\* avg_buff_effect are exact.
RateDen == 18 * Stats["PRECISION"].base

\* ProbabalisticStat.crit_convert / DEFAULT_PSTATS
crit_convert(kind) ==
    CASE kind = "CRIT" -> [p_factor |-> 200, p_scalar |-> 50]
      [] kind = "DH"   -> [p_factor |-> 550, p_scalar |-> 0]
      [] OTHER         -> [p_factor |-> 1,   p_scalar |-> 0]

\* ProbabalisticStat.get_p, in rate units
get_p(s) ==
    LET delta == s.value - Stats[s.stat].base
        c     == crit_convert(s.stat)
    IN  ((c.p_factor * delta) \div 3300 + c.p_scalar)
            * (RateDen \div Stats["PRECISION"].base)

----------------------------------------------------------------------------
(* calc.py: Roles, Buffs, Jobs *)

Roles == {"TANK", "HEALER", "MELEE", "RANGED", "CASTER"}

BuffNames == {"CHAIN", "DIV", "TRICK", "LITANY", "BROTHERHOOD", "BV", "BARD_CRIT",
              "BARD_DH", "TECH", "DEVOTION", "EMBOLDEN", "CARD", "LORD_LADY",
              "DSIGHT_SELF", "DSIGHT_OTHER", "DEVILMENT"}

\* Buffs enum; multiplier is in hundredths (0.1 is 10)
Buffs ==
    [b \in BuffNames |->
        CASE b = "CHAIN"        -> [multiplier |-> 10, duration_sec |-> 15, cooldown_sec |-> 120]
          [] b = "DIV"          -> [multiplier |-> 6,  duration_sec |-> 15, cooldown_sec |-> 120]
          [] b = "TRICK"        -> [multiplier |-> 5,  duration_sec |-> 15, cooldown_sec |-> 60]
          [] b = "LITANY"       -> [multiplier |-> 10, duration_sec |-> 20, cooldown_sec |-> 180]
          [] b = "BROTHERHOOD"  -> [multiplier |-> 5,  duration_sec |-> 15, cooldown_sec |-> 90]
          [] b = "BV"           -> [multiplier |-> 20, duration_sec |-> 20, cooldown_sec |-> 180]
          [] b = "BARD_CRIT"    -> [multiplier |-> 2,  duration_sec |-> 30, cooldown_sec |-> 80]
          [] b = "BARD_DH"      -> [multiplier |-> 3,  duration_sec |-> 20, cooldown_sec |-> 80]
          [] b = "TECH"         -> [multiplier |-> 5,  duration_sec |-> 20, cooldown_sec |-> 120]
          [] b = "DEVOTION"     -> [multiplier |-> 5,  duration_sec |-> 15, cooldown_sec |-> 180]
          [] b = "EMBOLDEN"     -> [multiplier |-> 10, duration_sec |-> 20, cooldown_sec |-> 120]
          [] b = "CARD"         -> [multiplier |-> 6,  duration_sec |-> 15, cooldown_sec |-> 30]
          [] b = "LORD_LADY"    -> [multiplier |-> 8,  duration_sec |-> 15, cooldown_sec |-> 30]
          [] b = "DSIGHT_SELF"  -> [multiplier |-> 10, duration_sec |-> 20, cooldown_sec |-> 120]
          [] b = "DSIGHT_OTHER" -> [multiplier |-> 5,  duration_sec |-> 20, cooldown_sec |-> 120]
          [] b = "DEVILMENT"    -> [multiplier |-> 20, duration_sec |-> 20, cooldown_sec |-> 120]]

\* Buffs.crit_buffs
crit_buffs == {"CHAIN", "LITANY", "DEVILMENT", "BARD_CRIT"}

\* Buffs.dh_buffs
dh_buffs == {"BV", "BARD_DH", "DEVILMENT"}

\* Buffs.avg_buff_effect, in rate units (multiplier * duration / cooldown)
avg_buff_effect(b) ==
    (Buffs[b].multiplier * Buffs[b].duration_sec * (RateDen \div 100))
        \div Buffs[b].cooldown_sec

JobNames == {"SCH", "AST", "WHM", "PLD", "WAR", "DRK", "GNB", "NIN", "DRG", "MNK",
             "SAM", "MCH", "DNC", "BRD", "SMN", "BLM", "RDM"}

\* Jobs enum
Jobs ==
    [j \in JobNames |->
        CASE j = "SCH" -> [job_mod |-> 115, role |-> "HEALER", raidbuff |-> <<"CHAIN">>]
          [] j = "AST" -> [job_mod |-> 115, role |-> "HEALER", raidbuff |-> <<"DIV">>]
          [] j = "WHM" -> [job_mod |-> 115, role |-> "HEALER", raidbuff |-> <<>>]
          [] j = "PLD" -> [job_mod |-> 110, role |-> "TANK",   raidbuff |-> <<>>]
          [] j = "WAR" -> [job_mod |-> 110, role |-> "TANK",   raidbuff |-> <<>>]
          [] j = "DRK" -> [job_mod |-> 110, role |-> "TANK",   raidbuff |-> <<>>]
          [] j = "GNB" -> [job_mod |-> 110, role |-> "TANK",   raidbuff |-> <<>>]
          [] j = "NIN" -> [job_mod |-> 110, role |-> "MELEE",  raidbuff |-> <<"TRICK">>]
          [] j = "DRG" -> [job_mod |-> 115, role |-> "MELEE",  raidbuff |-> <<"LITANY">>]
          [] j = "MNK" -> [job_mod |-> 110, role |-> "MELEE",  raidbuff |-> <<"BROTHERHOOD">>]
          [] j = "SAM" -> [job_mod |-> 112, role |-> "MELEE",  raidbuff |-> <<>>]
          [] j = "MCH" -> [job_mod |-> 115, role |-> "RANGED", raidbuff |-> <<>>]
          [] j = "DNC" -> [job_mod |-> 115, role |-> "RANGED", raidbuff |-> <<"TECH">>]
          [] j = "BRD" -> [job_mod |-> 115, role |-> "RANGED",
                           raidbuff |-> <<"BV", "BARD_CRIT", "BARD_DH">>]
          [] j = "SMN" -> [job_mod |-> 115, role |-> "CASTER", raidbuff |-> <<"DEVOTION">>]
          [] j = "BLM" -> [job_mod |-> 115, role |-> "CASTER", raidbuff |-> <<>>]
          [] j = "RDM" -> [job_mod |-> 115, role |-> "CASTER", raidbuff |-> <<"EMBOLDEN">>]]

----------------------------------------------------------------------------
(* calc.py: Comp *)

\* itertools.chain.from_iterable over a list of lists
RECURSIVE chain_from_iterable(_)
chain_from_iterable(lists) ==
    IF lists = <<>> THEN <<>>
    ELSE Head(lists) \o chain_from_iterable(Tail(lists))

\* set(iterable): the elements are added one by one, a repeated element once
RECURSIVE set_of(_)
set_of(list) ==
    IF list = <<>> THEN {}
    ELSE {Head(list)} \cup set_of(Tail(list))

\* len() of a set
len(s) == Cardinality(s)

\* n_roles computed as the length of the role list (duplicates counted)
n_roles_of_list(jobs) == Len(jobs)

\* len(set([job.role for job in jobs]))
n_roles_of(jobs) == len(set_of([i \in 1..Len(jobs) |-> Jobs[jobs[i]].role]))

\* set(itertools.chain.from_iterable([job.raidbuff for job in jobs]))
raidbuffs_of(jobs) ==
    set_of(chain_from_iterable([i \in 1..Len(jobs) |-> Jobs[jobs[i]].raidbuff]))

\* Comp.__init__
Comp(jobs) ==
    [jobs |-> jobs, raidbuffs |-> raidbuffs_of(jobs), n_roles |-> n_roles_of(jobs)]

\* the job lists of at most n jobs drawn from the set js
PartyLists(js, n) == UNION {[1..k -> js] : k \in 0..n}

----------------------------------------------------------------------------
(* Exact arithmetic for the float calc_damage returns: signed integers of   *)
(* NLimbs limbs in base LimbBase, little-endian, [neg, mag].               *)

LimbBase == 10000
NLimbs == 6
Limbs == 1..NLimbs

RECURSIVE Norm(_, _, _)
\* carry (or borrow) propagation over raw limbs
Norm(raw, i, carry) ==
    IF i > NLimbs THEN <<>>
    ELSE LET t == raw[i] + carry
         IN  <<t % LimbBase>> \o Norm(raw, i + 1, t \div LimbBase)

\* 0 <= n < 2^31
ToMag(n) ==
    [i \in Limbs |-> CASE i = 1 -> n % LimbBase
                       [] i = 2 -> (n \div LimbBase) % LimbBase
                       [] i = 3 -> n \div (LimbBase * LimbBase)
                       [] OTHER -> 0]

MagZero == [i \in Limbs |-> 0]
MagAdd(a, b) == Norm([i \in Limbs |-> a[i] + b[i]], 1, 0)
\* a >= b
MagSub(a, b) == Norm([i \in Limbs |-> a[i] - b[i]], 1, 0)
\* 0 <= s <= 200000
MagMulSmall(a, s) == Norm([i \in Limbs |-> a[i] * s], 1, 0)
MagShift(a) == [i \in Limbs |-> IF i = 1 THEN 0 ELSE a[i - 1]]
\* 0 <= s < 2^31
MagMul(a, s) ==
    MagAdd(MagShift(MagMulSmall(a, s \div LimbBase)), MagMulSmall(a, s % LimbBase))

RECURSIVE MagCmp(_, _, _)
\* -1, 0, 1 as a < b, a = b, a > b; compared from limb i down
MagCmp(a, b, i) ==
    IF i = 0 THEN 0
    ELSE IF a[i] < b[i] THEN -1
    ELSE IF a[i] > b[i] THEN 1
    ELSE MagCmp(a, b, i - 1)

Abs(n) == IF n < 0 THEN -n ELSE n

Big(n) == [neg |-> n < 0, mag |-> ToMag(Abs(n))]
BigMul(x, s) ==
    LET m == MagMul(x.mag, Abs(s))
    IN  [neg |-> (m /= MagZero) /\ (x.neg /= (s < 0)), mag |-> m]
BigAdd(x, y) ==
    IF x.neg = y.neg
    THEN [neg |-> x.neg, mag |-> MagAdd(x.mag, y.mag)]
    ELSE LET c == MagCmp(x.mag, y.mag, NLimbs)
         IN  IF c = 0 THEN [neg |-> FALSE, mag |-> MagZero]
             ELSE IF c > 0 THEN [neg |-> x.neg, mag |-> MagSub(x.mag, y.mag)]
             ELSE [neg |-> y.neg, mag |-> MagSub(y.mag, x.mag)]
\* x <= y
BigLeq(x, y) ==
    IF x.neg /= y.neg THEN x.neg
    ELSE IF x.neg THEN MagCmp(x.mag, y.mag, NLimbs) >= 0
    ELSE MagCmp(x.mag, y.mag, NLimbs) <= 0

----------------------------------------------------------------------------
(* calc.py: CharacterStats *)

\* CharacterStats.__init__
CharacterStats(job, wd, mainstat, det, crit, dh, speed, ten, pie) ==
    [job |-> job, wd |-> wd,
     mainstat |-> Stat("MAINSTAT", mainstat), det |-> Stat("DET", det),
     crit |-> Stat("CRIT", crit), dh |-> Stat("DH", dh),
     speed |-> Stat("SPEED", speed), ten |-> Stat("TEN", ten),
     pie |-> Stat("PIE", pie)]

RECURSIVE Binade(_)
\* floor(log2(X / 1000)) for X >= 1: the binade of the float X / 1000
Binade(X) ==
    IF X >= 2000 THEN 1 + Binade(X \div 2)
    ELSE IF X < 1000 THEN Binade(2 * X) - 1
    ELSE 0

RECURSIVE Pow2Mod2000(_)
Pow2Mod2000(p) == IF p = 0 THEN 1 ELSE (2 * Pow2Mod2000(p - 1)) % 2000

RECURSIVE Pow2(_)
Pow2(k) == IF k = 0 THEN 1 ELSE 2 * Pow2(k - 1)

RECURSIVE ILog2(_)
\* floor(log2(n)) for n >= 1
ILog2(n) == IF n < 2 THEN 0 ELSE 1 + ILog2(n \div 2)

RECURSIVE IsPow2(_)
IsPow2(n) == n = 1 \/ (n % 2 = 0 /\ IsPow2(n \div 2))

\* CharacterStats.truncate and multiply_and_truncate with precision = 1000:
\* math.floor(val * ((1000 + factor) / 1000)) as binary64 computes it.
\* (1000 + factor) / 1000 is rounded to 53 bits, the product is rounded again,
\* and when the exact product is an integer N the rounded product can fall
\* just below N, so that the floor is N - 1.  |val| <= 2 * 10^6.
multiply_and_truncate(val, factor) ==
    LET x   == 1000 + factor
        N   == (val \div 1000) * x + ((val % 1000) * x) \div 1000
        rem == ((val % 1000) * x) % 1000
    IN  IF rem /= 0 \/ N = 0 THEN N
        ELSE
        LET X      == Abs(x)
            a      == Binade(X)
            \* X * 2^(52 - a) / 1000 = k + remx / 1000, m2 \div 1000 = k mod 2
            m2     == ((X % 2000) * Pow2Mod2000(52 - a)) % 2000
            remx   == m2 % 1000
            \* the quotient was rounded toward zero
            shrink == remx < 500 \/ (remx = 500 /\ m2 < 1000)
            errnum == IF shrink THEN remx ELSE 1000 - remx
            thr    == 500 * Pow2(ILog2(Abs(N)) - a)
            \* the product's rounding does not give N back
            lost   == IF shrink /\ IsPow2(Abs(N))
                      THEN 2 * Abs(val) * errnum > thr
                      ELSE Abs(val) * errnum > thr
        IN  IF remx = 0 \/ ~lost THEN N
            ELSE IF N > 0 THEN (IF shrink THEN N - 1 ELSE N)
            ELSE (IF shrink THEN N ELSE N - 1)

\* apply_stat with the multiplier's sign lost (delta taken as base - value)
apply_stat_reversed(damage, s) ==
    multiply_and_truncate(damage, -IntMultiplier(s))

\* CharacterStats.apply_stat
apply_stat(damage, s) == multiply_and_truncate(damage, IntMultiplier(s))

\* math.floor(self.mainstat.value * (1 + 0.01 * comp.n_roles)); the float
\* 1 + 0.01 * n is not below (100 + n) / 100 for n in 0..5, and the floor is
\* the exact one
modified_mainstat(ch, c) ==
    Stat("MAINSTAT", (ch.mainstat.value * (100 + c.n_roles)) \div 100)

\* calc_damage up to the job trait: the post-trait damage
post_trait_damage(ch, potency, c, is_dot) ==
    LET d0 == (potency * (ch.wd + (340 * Jobs[ch.job].job_mod) \div 1000)
                 * (100 + IntMultiplier(modified_mainstat(ch, c)))) \div 100
        d1 == apply_stat(d0, ch.det)
        d2 == apply_stat(d1, ch.ten)
        d3 == IF is_dot THEN apply_stat(d2, ch.speed) ELSE d2
        d4 == d3 \div 100
    IN  \* math.floor(damage * 1.3): the float 1.3 is above 13/10 by less
        \* than one part in 2^53, and the floor is the exact one
        IF Jobs[ch.job].role = "HEALER" THEN (d4 * 13) \div 10 ELSE d4

\* An optional rate argument is <<>> (None) or <<r>>, r in rate units.
\* "if not crit_rate": None and 0 are both falsy.
supplied(rate) == rate /= <<>> /\ rate[1] /= 0

RECURSIVE apply_buffs(_, _)
\* the loop over comp.raidbuffs; rates is [crit, dh]
apply_buffs(buffs, rates) ==
    IF buffs = {} THEN rates
    ELSE LET buff == CHOOSE b \in buffs : TRUE
             next == IF buff \in crit_buffs
                     THEN [rates EXCEPT !.crit = @ + avg_buff_effect(buff)]
                     ELSE IF buff \in dh_buffs
                     THEN [rates EXCEPT !.dh = @ + avg_buff_effect(buff)]
                     ELSE rates
         IN  apply_buffs(buffs \ {buff}, next)

\* CharacterStats.calc_damage: the frame at its return
calc_damage(ch, potency, c, is_dot, crit_rate, dh_rate) ==
    LET damage      == post_trait_damage(ch, potency, c, is_dot)
        crit_damage == apply_stat(damage, ch.crit)
        dh_damage   == (damage * Stats[ch.dh.stat].m_factor) \div 1000
        cdh_damage  == (crit_damage * Stats[ch.dh.stat].m_factor) \div 1000
        cr0   == IF supplied(crit_rate) THEN crit_rate[1] ELSE get_p(ch.crit)
        dr0   == IF supplied(dh_rate) THEN dh_rate[1] ELSE get_p(ch.dh)
        rates == apply_buffs(c.raidbuffs, [crit |-> cr0, dh |-> dr0])
        cr    == rates.crit
        dr    == rates.dh
        \* with cdh_rate = cr * dr: normal_rate = 1 - cr - dr + cdh_rate is
        \* (1 - cr) * (1 - dr), cr - cdh_rate is cr * (1 - dr) and
        \* dr - cdh_rate is dr * (1 - cr); all times RateDen^2
        result == BigAdd(
                    BigAdd(BigMul(BigMul(Big(damage), RateDen - cr), RateDen - dr),
                           BigMul(BigMul(Big(crit_damage), cr), RateDen - dr)),
                    BigAdd(BigMul(BigMul(Big(dh_damage), dr), RateDen - cr),
                           BigMul(BigMul(Big(cdh_damage), cr), dr)))
    IN  [potency |-> potency, comp |-> c, is_dot |-> is_dot,
         crit_rate_arg |-> crit_rate, dh_rate_arg |-> dh_rate,
         damage |-> damage, crit_damage |-> crit_damage,
         dh_damage |-> dh_damage, cdh_damage |-> cdh_damage,
         crit_rate |-> cr, dh_rate |-> dr, result |-> result]

----------------------------------------------------------------------------
(* pps/sch.py: SchPps.  Times are in units of 1/TimeDen s, DoT scalars in   *)
(* units of 1/ScalarDen, potencies in units of 1/PotDen.  A character is    *)
(* [gcd, dot_scalar]: what its get_gcd() and get_dot_scalar() return.       *)

TimeDen == 64
ScalarDen == 16
PotDen == ScalarDen * ScalarDen

r2_potency == 200
b3_potency == 290
bio_potency == 70
ed_potency == 100

\* math.ceil(a / b) and math.floor(a / b) for b > 0
ceil_div(a, b) == -((-a) \div b)
floor_div(a, b) == a \div b

\* (30 - 2 * short_gcd) % (short_gcd + caster_tax), in time units
gcd_remainder(gcd, caster_tax) == (30 * TimeDen - 2 * gcd) % (gcd + caster_tax)

\* the branch condition of both functions: the remainder is above 1.5 s
takes_ceiling(gcd, caster_tax) == 2 * gcd_remainder(gcd, caster_tax) > 3 * TimeDen

\* the branch condition with >= in place of >
takes_ceiling_at_threshold(gcd, caster_tax) ==
    2 * gcd_remainder(gcd, caster_tax) >= 3 * TimeDen

\* total_potency_spreadsheet_port subtracting the omitted casts once, not 3 times
total_potency_subtracting_once(ch, caster_tax, ed_per_min, num_filler_casts) ==
    LET short_gcd == ch.gcd
        up        == takes_ceiling(short_gcd, caster_tax)
        casts     == IF up
                     THEN ceil_div(30 * TimeDen - 2 * short_gcd, short_gcd + caster_tax)
                     ELSE floor_div(30 * TimeDen - 2 * short_gcd, short_gcd + caster_tax)
        fixed     == 3 * ed_potency * ed_per_min
                     + 6 * casts * b3_potency + 2 * b3_potency + 4 * r2_potency
        bio       == IF up
                     THEN 6 * 10 * ch.dot_scalar * bio_potency * ScalarDen
                     ELSE 6 * 9 * ch.dot_scalar * bio_potency * ScalarDen
                          + (bio_potency \div 2) * (3 * TimeDen
                               - gcd_remainder(short_gcd, caster_tax)) * ch.dot_scalar
    IN  [ceiling |-> up, casts |-> casts,
         result |-> fixed * PotDen + bio - num_filler_casts * b3_potency * PotDen]

\* SchPps.total_potency_spreadsheet_port: the branch taken, the filler-cast
\* count used and the result.  weird_fractional_bio_tick is
\*   6 * ((3 - r) / 3) * sps_scalar * bio_potency
\* = (bio_potency / 2) * (3 * TimeDen - r') * sps' / PotDen   with TimeDen = 64,
\* r = r' / TimeDen, sps_scalar = sps' / ScalarDen.
total_potency_spreadsheet_port(ch, caster_tax, ed_per_min, num_filler_casts) ==
    LET short_gcd == ch.gcd
        up        == takes_ceiling(short_gcd, caster_tax)
        casts     == IF up
                     THEN ceil_div(30 * TimeDen - 2 * short_gcd, short_gcd + caster_tax)
                     ELSE floor_div(30 * TimeDen - 2 * short_gcd, short_gcd + caster_tax)
        fixed     == 3 * ed_potency * ed_per_min
                     + 6 * casts * b3_potency + 2 * b3_potency + 4 * r2_potency
        bio       == IF up
                     THEN 6 * 10 * ch.dot_scalar * bio_potency * ScalarDen
                     ELSE 6 * 9 * ch.dot_scalar * bio_potency * ScalarDen
                          + (bio_potency \div 2) * (3 * TimeDen
                               - gcd_remainder(short_gcd, caster_tax)) * ch.dot_scalar
    IN  [ceiling |-> up, casts |-> casts,
         result |-> fixed * PotDen + bio - 3 * num_filler_casts * b3_potency * PotDen]

\* get_cycle branching on >= 1.5
get_cycle_at_threshold(ch, caster_tax) ==
    LET short_gcd == ch.gcd
        up        == takes_ceiling_at_threshold(short_gcd, caster_tax)
        casts     == IF up
                     THEN ceil_div(30 * TimeDen - 2 * short_gcd, short_gcd + caster_tax)
                     ELSE floor_div(30 * TimeDen - 2 * short_gcd, short_gcd + caster_tax)
    IN  [ceiling |-> up, casts |-> casts,
         result |-> 6 * (2 * short_gcd + casts * (short_gcd + caster_tax)) - caster_tax]

\* SchPps.get_cycle: the branch taken, the filler-cast count and the duration
get_cycle(ch, caster_tax) ==
    LET short_gcd == ch.gcd
        up        == takes_ceiling(short_gcd, caster_tax)
        casts     == IF up
                     THEN ceil_div(30 * TimeDen - 2 * short_gcd, short_gcd + caster_tax)
                     ELSE floor_div(30 * TimeDen - 2 * short_gcd, short_gcd + caster_tax)
    IN  [ceiling |-> up, casts |-> casts,
         result |-> 6 * (2 * short_gcd + casts * (short_gcd + caster_tax)) - caster_tax]

\* SchPps.get_pps: the two calls it makes; the value returned is
\* total.result / cycle.result (in potency per second: times TimeDen / PotDen)
get_pps(ch, caster_tax, num_ed_per_min, num_filler_casts) ==
    [character |-> ch, caster_tax |-> caster_tax, num_ed_per_min |-> num_ed_per_min,
     num_filler_casts |-> num_filler_casts,
     total |-> total_potency_spreadsheet_port(ch, caster_tax, num_ed_per_min,
                                              num_filler_casts),
     cycle |-> get_cycle(ch, caster_tax)]

\* SchPps.get_total_potency_flexible_time; num_seconds in time units
get_total_potency_flexible_time(ch, num_seconds, caster_tax) ==
    LET num_af == 3 * ceil_div(num_seconds - 10 * TimeDen, 60 * TimeDen)
                  + 3 * ceil_div(num_seconds - 20 * TimeDen, 180 * TimeDen)
        num_r2 == ceil_div(num_seconds, 120 * TimeDen)
                  + 3 * ceil_div(num_seconds, 180 * TimeDen)
                  - ceil_div(num_seconds, 360 * TimeDen)
        num_bio == ceil_div(num_seconds, 30 * TimeDen)
        num_swift_b3 == IF num_seconds <= 30 * TimeDen THEN 1 ELSE floor_div(num_bio, 2)
        b3_time_budget == num_seconds - ch.gcd * (num_r2 + num_swift_b3 + num_bio)
        num_b3 == floor_div(b3_time_budget, ch.gcd + caster_tax)
        num_bio_ticks == floor_div(num_seconds, 3 * TimeDen)
    IN  [character |-> ch, num_seconds |-> num_seconds, caster_tax |-> caster_tax,
         num_b3 |-> num_b3,
         result |-> (b3_potency * num_b3 + num_r2 * r2_potency
                       + num_swift_b3 * b3_potency + ed_potency * num_af) * PotDen
                    + bio_potency * ch.dot_scalar * num_bio_ticks * ScalarDen]

----------------------------------------------------------------------------
(* Specification SpecStat: Stat objects and their getters *)

StatValues(kind) == (Stats[kind].base - MaxDelta)..(Stats[kind].base + MaxDelta)

\* a character with every stat at its base
BaseCharacter ==
    CharacterStats("SCH", 0, Stats["MAINSTAT"].base, Stats["DET"].base,
                   Stats["CRIT"].base, Stats["DH"].base, Stats["SPEED"].base,
                   Stats["TEN"].base, Stats["PIE"].base)

InitStat ==
    /\ pc = "Stat"
    /\ \E kind \in StatKinds : \E value \in StatValues(kind) : stat = Stat(kind, value)
    /\ mult = <<>>
    /\ prob = <<>>
    /\ comp = Comp(<<>>)
    /\ self = BaseCharacter
    /\ frame = <<>>
    /\ probe = <<>>
    /\ pps = <<>>
    /\ flex = <<>>

\* stat.get_multiplier()
GetMultiplier ==
    /\ pc' = "get_multiplier"
    /\ mult' = <<get_multiplier(stat)>>
    /\ UNCHANGED <<stat, prob, comp, self, frame, probe, pps, flex>>

\* stat.get_p() on a ProbabalisticStat object
GetP ==
    /\ stat.stat \in {"CRIT", "DH"}
    /\ pc' = "get_p"
    /\ prob' = <<get_p(stat)>>
    /\ UNCHANGED <<stat, mult, comp, self, frame, probe, pps, flex>>

NextStat == GetMultiplier \/ GetP

SpecStat == InitStat /\ [][NextStat]_vars

----------------------------------------------------------------------------
(* Specification SpecComp: a composition built from a job list *)

InitComp ==
    /\ pc = "start"
    /\ stat = Stat("MAINSTAT", Stats["MAINSTAT"].base)
    /\ mult = <<>>
    /\ prob = <<>>
    /\ comp = Comp(<<>>)
    /\ self = BaseCharacter
    /\ frame = <<>>
    /\ probe = <<>>
    /\ pps = <<>>
    /\ flex = <<>>

\* comp = Comp(jobs)
BuildComp(jobs) ==
    /\ pc = "start"
    /\ pc' = "Comp"
    /\ comp' = Comp(jobs)
    /\ UNCHANGED <<stat, mult, prob, self, frame, probe, pps, flex>>

NextComp ==
    pc = "start" /\ \E jobs \in PartyLists(JobNames, MaxParty) : BuildComp(jobs)

SpecComp == InitComp /\ [][NextComp]_vars

----------------------------------------------------------------------------
(* Specification SpecDamage: calc_damage on a character and a composition *)

\* the optional crit_rate / dh_rate arguments: None, 0, 0.5, 1
RateArgs == {<<>>, <<0>>, <<RateDen \div 2>>, <<RateDen>>}

DamageJobs == {"SCH", "BRD", "NIN"}
DamagePotencies == {10, 300}

\* <<crit, dh>> stat values: both at base, a geared character, and values so
\* large that the derived rates exceed 1 (crit 1.5, direct hit 11.0)
RateStatValues == {<<380, 380>>, <<2500, 1000>>, <<24305, 380>>, <<24305, 66380>>}
DetValues == {0, 340, 1101, 1102}

DamageCharacters ==
    {CharacterStats(job, 132, 3300, det, cd[1], cd[2], 420, 500, 340) :
        job \in {"SCH", "PLD"}, det \in DetValues, cd \in RateStatValues}

InitDamage ==
    /\ pc = "idle"
    /\ stat = Stat("MAINSTAT", Stats["MAINSTAT"].base)
    /\ mult = <<>>
    /\ prob = <<>>
    /\ comp = Comp(<<>>)
    /\ self \in DamageCharacters
    /\ frame = <<>>
    /\ probe = <<>>
    /\ pps = <<>>
    /\ flex = <<>>

\* comp = Comp(jobs), between two calls
NewComp(jobs) ==
    /\ pc = "idle"
    /\ comp' = Comp(jobs)
    /\ UNCHANGED <<pc, stat, mult, prob, self, frame, probe, pps, flex>>

\* calc_damage, with a side effect: the party-modified main stat is stored
\* back into the character
CalcDamage_storing_mainstat(potency, is_dot, crit_rate, dh_rate) ==
    /\ pc = "idle"
    /\ pc' = "calc_damage"
    /\ frame' = <<calc_damage(self, potency, comp, is_dot, crit_rate, dh_rate)>>
    /\ self' = [self EXCEPT !.mainstat = modified_mainstat(self, comp)]
    /\ UNCHANGED <<stat, mult, prob, comp, probe, pps, flex>>

\* self.calc_damage(potency, comp, is_dot, crit_rate, dh_rate) runs to its return
CalcDamage(potency, is_dot, crit_rate, dh_rate) ==
    /\ pc = "idle"
    /\ pc' = "calc_damage"
    /\ frame' = <<calc_damage(self, potency, comp, is_dot, crit_rate, dh_rate)>>
    /\ UNCHANGED <<stat, mult, prob, comp, self, probe, pps, flex>>

\* the caller takes the value; the frame is gone
Return ==
    /\ pc = "calc_damage"
    /\ pc' = "idle"
    /\ frame' = <<>>
    /\ UNCHANGED <<stat, mult, prob, comp, self, probe, pps, flex>>

NextDamage ==
    \/ pc = "idle" /\ \E jobs \in PartyLists(DamageJobs, MaxParty) : NewComp(jobs)
    \/ pc = "idle" /\ \E potency \in DamagePotencies, is_dot \in BOOLEAN,
                         crit_rate \in RateArgs, dh_rate \in RateArgs :
                           CalcDamage(potency, is_dot, crit_rate, dh_rate)
    \/ Return

SpecDamage == InitDamage /\ [][NextDamage]_vars

----------------------------------------------------------------------------
(* Specification SpecFrame: a sequence of calc_damage calls on one          *)
(* character, with the first call remembered in probe = <<frame, between>>; *)
(* between says that a call with other arguments was made since.            *)

FrameJobs == {"SCH", "NIN"}
FrameRateArgs == {<<>>, <<RateDen \div 2>>}

FrameCharacters ==
    {CharacterStats(job, 132, 3300, 1500, 2500, 1000, 420, 500, 340) :
        job \in {"SCH", "PLD"}}

\* two frames of calls with the same arguments
SameArgs(f, g) ==
    /\ f.potency = g.potency
    /\ f.comp = g.comp
    /\ f.is_dot = g.is_dot
    /\ f.crit_rate_arg = g.crit_rate_arg
    /\ f.dh_rate_arg = g.dh_rate_arg

InitFrame ==
    /\ pc = "idle"
    /\ stat = Stat("MAINSTAT", Stats["MAINSTAT"].base)
    /\ mult = <<>>
    /\ prob = <<>>
    /\ comp = Comp(<<>>)
    /\ self \in FrameCharacters
    /\ frame = <<>>
    /\ probe = <<>>
    /\ pps = <<>>
    /\ flex = <<>>

\* the caller takes the value and remembers the first call
ReturnRecorded ==
    /\ pc = "calc_damage"
    /\ pc' = "idle"
    /\ frame' = <<>>
    /\ probe' = IF probe = <<>> THEN <<frame[1], FALSE>>
                ELSE IF SameArgs(probe[1], frame[1]) THEN probe
                ELSE <<probe[1], TRUE>>
    /\ UNCHANGED <<stat, mult, prob, comp, self, pps, flex>>

NextFrame ==
    \/ pc = "idle" /\ \E jobs \in PartyLists(FrameJobs, MaxParty) : NewComp(jobs)
    \/ pc = "idle" /\ \E is_dot \in BOOLEAN, crit_rate \in FrameRateArgs,
                         dh_rate \in FrameRateArgs :
                           CalcDamage(300, is_dot, crit_rate, dh_rate)
    \/ ReturnRecorded

SpecFrame == InitFrame /\ [][NextFrame]_vars

----------------------------------------------------------------------------
(* Specification SpecSch: the rotation model applied to one input *)

\* GCDs from 1 s to 2.75 s, in steps of 1/64 s
GcdValues == TimeDen..(2 * TimeDen + 3 * (TimeDen \div 4))
\* caster taxes 0, 0.125 s and 0.25 s
TaxValues == {0, TimeDen \div 8, TimeDen \div 4}
\* DoT scalars 1 and 1.0625
DotScalarValues == {ScalarDen, ScalarDen + 1}
EdPerMinValues == {0, 4}

SchCharacters == [gcd : GcdValues, dot_scalar : DotScalarValues]

InitSch ==
    /\ pc = "start"
    /\ stat = Stat("MAINSTAT", Stats["MAINSTAT"].base)
    /\ mult = <<>>
    /\ prob = <<>>
    /\ comp = Comp(<<>>)
    /\ self = BaseCharacter
    /\ frame = <<>>
    /\ probe = <<>>
    /\ pps = <<>>
    /\ flex = <<>>

\* SchPps().get_pps(character_stats, caster_tax, num_ed_per_min, num_filler_casts)
GetPps(ch, caster_tax, num_ed_per_min, num_filler_casts) ==
    /\ pc = "start"
    /\ pc' = "get_pps"
    /\ pps' = <<get_pps(ch, caster_tax, num_ed_per_min, num_filler_casts)>>
    /\ UNCHANGED <<stat, mult, prob, comp, self, frame, probe, flex>>

\* SchPps().get_total_potency_flexible_time(character, num_seconds, caster_tax)
GetTotalPotencyFlexibleTime(ch, num_seconds, caster_tax) ==
    /\ pc = "start"
    /\ pc' = "get_total_potency_flexible_time"
    /\ flex' = <<get_total_potency_flexible_time(ch, num_seconds, caster_tax)>>
    /\ UNCHANGED <<stat, mult, prob, comp, self, frame, probe, pps>>

NextSch ==
    \/ pc = "start" /\ \E ch \in SchCharacters, caster_tax \in TaxValues,
                          num_ed_per_min \in EdPerMinValues,
                          num_filler_casts \in 0..MaxOmitted :
                            GetPps(ch, caster_tax, num_ed_per_min, num_filler_casts)
    \/ pc = "start" /\ \E ch \in SchCharacters, seconds \in 0..MaxSeconds,
                          caster_tax \in TaxValues :
                            GetTotalPotencyFlexibleTime(ch, seconds * TimeDen, caster_tax)

SpecSch == InitSch /\ [][NextSch]_vars

----------------------------------------------------------------------------
(* Claims about calc.py *)

\* the value calc_damage returns when it returns exactly the integer d
BigOfDamage(d) == BigMul(BigMul(Big(d), RateDen), RateDen)

\* C1 (as claimed; refuted by the code): a calc_damage call with the overrides
\* crit_rate = 0 and dh_rate = 0 uses crit and dh rates of 0 (normal_rate = 1)
\* and returns exactly the post-trait damage D.
C1_ZeroOverridesReturnD ==
    (pc = "calc_damage" /\ frame[1].crit_rate_arg = <<0>> /\ frame[1].dh_rate_arg = <<0>>)
        => /\ frame[1].crit_rate = 0
           /\ frame[1].dh_rate = 0
           /\ frame[1].result =
                BigOfDamage(post_trait_damage(self, frame[1].potency, frame[1].comp,
                                              frame[1].is_dot))

\* the same character with another determination value
WithDet(ch, det) == [ch EXCEPT !.det = Stat("DET", det)]

\* the call of frame f made again on character ch
Recall(ch, f) ==
    calc_damage(ch, f.potency, f.comp, f.is_dot, f.crit_rate_arg, f.dh_rate_arg)

\* the effective crit and dh rates of the call lie in [0, 1]
RatesInUnit(f) == f.crit_rate \in 0..RateDen /\ f.dh_rate \in 0..RateDen

\* C3 (as claimed; refuted by the code): for two characters that differ only
\* in determination, det1 <= det2, and the same remaining input, calc_damage with
\* det2 is never smaller than calc_damage with det1.
C3_MonotoneInDet ==
    pc = "calc_damage" =>
        \A det2 \in DetValues :
            self.det.value <= det2 =>
                BigLeq(frame[1].result, Recall(WithDet(self, det2), frame[1]).result)

\* C3 (amended): the same, whenever the effective crit and dh rates of the call
\* (derived or overridden, after the party buffs) both lie in [0, 1].
C3_MonotoneInDetUnitRates ==
    (pc = "calc_damage" /\ RatesInUnit(frame[1])) =>
        \A det2 \in DetValues :
            self.det.value <= det2 =>
                BigLeq(frame[1].result, Recall(WithDet(self, det2), frame[1]).result)

\* C3 witness: a call with rates in [0, 1] for which a larger determination
\* gives a strictly larger result
C3_Witness ==
    /\ pc = "calc_damage"
    /\ RatesInUnit(frame[1])
    /\ frame[1].comp.raidbuffs /= {}
    /\ \E det2 \in DetValues :
        /\ self.det.value < det2
        /\ ~BigLeq(Recall(WithDet(self, det2), frame[1]).result, frame[1].result)

\* the sum of avg_buff_effect over a set of buffs
RECURSIVE SumEffects(_)
SumEffects(bs) ==
    IF bs = {} THEN 0
    ELSE LET b == CHOOSE x \in bs : TRUE
         IN  avg_buff_effect(b) + SumEffects(bs \ {b})

\* the rate calc_damage starts from: the argument if it is truthy, else get_p
StartRate(arg, s) == IF supplied(arg) THEN arg[1] ELSE get_p(s)

\* C8 (as claimed; refuted by the code): no buff is in both crit_buffs() and
\* dh_buffs(), and in calc_damage every buff of the composition in the dh
\* family adds its average uptime contribution to the dh rate and every buff in
\* the crit family adds it to the crit rate.
C8_FamiliesDisjoint ==
    pc = "calc_damage" =>
        /\ crit_buffs \cap dh_buffs = {}
        /\ frame[1].crit_rate = StartRate(frame[1].crit_rate_arg, self.crit)
                + SumEffects(frame[1].comp.raidbuffs \cap crit_buffs)
        /\ frame[1].dh_rate = StartRate(frame[1].dh_rate_arg, self.dh)
                + SumEffects(frame[1].comp.raidbuffs \cap dh_buffs)

\* C4: a calc_damage call leaves the character and the composition as they
\* were, and returns what the first call with the same arguments returned,
\* whatever calls were made in between.
C4_NoHiddenState ==
    [][pc' = "calc_damage" =>
        /\ self' = self
        /\ comp' = comp
        /\ (probe /= <<>> /\ SameArgs(probe[1], frame'[1]))
              => frame'[1].result = probe[1].result]_vars

\* C4 witness: the first call is repeated after a call with other arguments
C4_Witness ==
    /\ pc = "calc_damage"
    /\ probe /= <<>>
    /\ probe[2]
    /\ SameArgs(probe[1], frame[1])
    /\ frame[1].comp.n_roles > 0
    /\ frame[1].result = probe[1].result

\* the elements of a list
Range(list) == {list[i] : i \in DOMAIN list}

\* list with the elements at i and j exchanged
Swap(list, i, j) ==
    [k \in DOMAIN list |-> IF k = i THEN list[j] ELSE IF k = j THEN list[i] ELSE list[k]]

\* C2: Comp computes n_roles as the number of distinct roles among the jobs and
\* raidbuffs as the union of the jobs' raid-buff lists; the empty list gives 0
\* and {}, [SCH, SCH] gives 1 and {CHAIN}, and exchanging two jobs of the list
\* or repeating one of them changes neither value.
C2_CompAggregates ==
    pc = "Comp" =>
        LET jobs == comp.jobs IN
        /\ comp.n_roles = Cardinality({Jobs[j].role : j \in Range(jobs)})
        /\ comp.raidbuffs = UNION {Range(Jobs[j].raidbuff) : j \in Range(jobs)}
        /\ jobs = <<>> => (comp.n_roles = 0 /\ comp.raidbuffs = {})
        /\ jobs = <<"SCH", "SCH">> => (comp.n_roles = 1 /\ comp.raidbuffs = {"CHAIN"})
        /\ \A i, j \in DOMAIN jobs :
            /\ Comp(Swap(jobs, i, j)).n_roles = comp.n_roles
            /\ Comp(Swap(jobs, i, j)).raidbuffs = comp.raidbuffs
        /\ \A i \in DOMAIN jobs :
            /\ Comp(Append(jobs, jobs[i])).n_roles = comp.n_roles
            /\ Comp(Append(jobs, jobs[i])).raidbuffs = comp.raidbuffs

\* C2 witness: the composition built from [SCH, SCH]
C2_Witness ==
    /\ pc = "Comp"
    /\ comp.jobs = <<"SCH", "SCH">>
    /\ comp.n_roles = 1
    /\ comp.raidbuffs = {"CHAIN"}

\* C5: for every stat kind other than direct hit and every integer value,
\* get_multiplier returns floor(m_factor * (value - base) / d) + m_scalar with
\* d = 340 for the main stat and 3300 otherwise (the floor is the integer q with
\* q * d <= m_factor * (value - base) < (q + 1) * d, also below the base), and
\* a stat at its base returns exactly m_scalar.
C5_MultiplierIsFloor ==
    (pc = "get_multiplier" /\ stat.stat /= "DH") =>
        LET k == Stats[stat.stat]
            d == IF stat.stat = "MAINSTAT" THEN 340 ELSE 3300
            n == k.m_factor * (stat.value - k.base)
            q == mult[1][1] - k.m_scalar
        IN  /\ mult[1][2] = 1
            /\ q * d <= n
            /\ n < (q + 1) * d
            /\ stat.value = k.base => mult[1] = <<k.m_scalar, 1>>

\* C5 witness: determination one below its base floors to -1
C5_Witness ==
    /\ pc = "get_multiplier"
    /\ stat = Stat("DET", 339)
    /\ mult = <<(<<-1, 1>>)>>

----------------------------------------------------------------------------
(* Claims about pps/sch.py *)

\* C6: with r = (30 - 2 * GCD) mod (GCD + tax), get_cycle and
\* total_potency_spreadsheet_port both take the ceiling branch if and only if
\* r > 1.5 s, strictly; at r = 1.5 s and below both take the floor branch; and
\* the filler-cast count of the total potency is the one of the cycle duration:
\* the ceiling, respectively the floor, of (30 - 2 * GCD) / (GCD + tax).
C6_BranchSelection ==
    pc = "get_pps" =>
        LET f == pps[1]
            n == 30 * TimeDen - 2 * f.character.gcd
            d == f.character.gcd + f.caster_tax
            r == n % d
            q == f.total.casts
        IN  /\ f.total.ceiling <=> (2 * r > 3 * TimeDen)
            /\ f.cycle.ceiling <=> (2 * r > 3 * TimeDen)
            /\ f.total.casts = f.cycle.casts
            /\ f.total.ceiling => ((q - 1) * d < n /\ n <= q * d)
            /\ ~f.total.ceiling => (q * d <= n /\ n < (q + 1) * d)

\* C6 witness: a remainder of exactly 1.5 s, where both take the floor branch
C6_Witness ==
    /\ pc = "get_pps"
    /\ 2 * gcd_remainder(pps[1].character.gcd, pps[1].caster_tax) = 3 * TimeDen
    /\ ~pps[1].total.ceiling
    /\ ~pps[1].cycle.ceiling

\* C7 (as claimed; refuted by the code): for every window num_seconds >= 0,
\* every GCD > caster tax >= 0 and every non-negative DoT scalar,
\* get_total_potency_flexible_time returns a total potency >= 0.
C7_FlexibleNonNegative ==
    (/\ pc = "get_total_potency_flexible_time"
     /\ flex[1].num_seconds >= 0
     /\ flex[1].character.gcd > flex[1].caster_tax
     /\ flex[1].caster_tax >= 0
     /\ flex[1].character.dot_scalar >= 0)
        => flex[1].result >= 0

\* C9 (as claimed; refuted by the code): total_potency_spreadsheet_port with n
\* filler casts omitted is the same call with 0 omitted minus n * b3_potency,
\* and the omission does not change the cycle duration.
C9_OmittedOnce ==
    pc = "get_pps" =>
        LET f == pps[1] IN
        /\ f.total.result =
             total_potency_spreadsheet_port(f.character, f.caster_tax,
                                            f.num_ed_per_min, 0).result
               - f.num_filler_casts * b3_potency * PotDen
        /\ f.cycle = get_pps(f.character, f.caster_tax, f.num_ed_per_min, 0).cycle

\* C9 (amended): total_potency_spreadsheet_port with n filler casts omitted is
\* the same call with 0 omitted minus 3 * n * b3_potency (n is a count per
\* minute of the three-minute cycle), and the omission does not change the
\* cycle duration.
C9_OmittedThrice ==
    pc = "get_pps" =>
        LET f == pps[1] IN
        /\ f.total.result =
             total_potency_spreadsheet_port(f.character, f.caster_tax,
                                            f.num_ed_per_min, 0).result
               - 3 * f.num_filler_casts * b3_potency * PotDen
        /\ f.cycle = get_pps(f.character, f.caster_tax, f.num_ed_per_min, 0).cycle

\* C9 witness: a call with two filler casts omitted
C9_Witness ==
    /\ pc = "get_pps"
    /\ pps[1].num_filler_casts = 2
    /\ pps[1].total.result =
         get_pps(pps[1].character, pps[1].caster_tax, pps[1].num_ed_per_min, 0).total.result
           - 6 * b3_potency * PotDen

\* C10 (as claimed; refuted by the code): for every GCD from 1.5 s to 2.5 s and
\* every caster tax with 0 <= tax < GCD, get_cycle returns at most 180 s.
C10_CycleAtMost180 ==
    (/\ pc = "get_pps"
     /\ 2 * pps[1].character.gcd >= 3 * TimeDen
     /\ 2 * pps[1].character.gcd <= 5 * TimeDen
     /\ pps[1].caster_tax >= 0
     /\ pps[1].caster_tax < pps[1].character.gcd)
        => pps[1].cycle.result <= 180 * TimeDen

============================================================================
